---- MODULE Spec2Model ----
(***************************************************************************)
(* Model of the ResearchSynthesis knowledge-graph backend                  *)
(* (src/backend/knowledge_graph.py and the handlers of src/backend/main.py *)
(* that mutate the shared index).                                          *)
(*                                                                         *)
(* Strings (content, title, query text, response) are sequences of         *)
(* one-character strings, so that lower(), split(), strip(), the substring *)
(* test and slicing are computed rather than assumed.  Document ids are    *)
(* opaque to the program (a dict key, and a truth test in __post_init__),  *)
(* so they are atomic strings; "" is the unset id.                         *)
(* A Python dict is a sequence of entries with pairwise distinct keys, in  *)
(* insertion order.  The Document fields source, metadata and created_at   *)
(* are written once and only copied, and are left out of the record.       *)
(***************************************************************************)
EXTENDS Integers, Sequences, FiniteSets, TLC

(* documents, indexed: the two fields of the shared KnowledgeGraphIndex.    *)
(* ret: the operation that ran last, with its arguments and return value.  *)
(* added: history variable, true when add_documents has run since          *)
(* construction or the last clear.                                         *)
(* tasks: the request handlers that the event loop runs as coroutines,     *)
(* each with its position in the handler and its local variables.          *)
VARIABLES documents, indexed, ret, added, tasks

vars == <<documents, indexed, ret, added, tasks>>

(* ------------------------------ bounds -------------------------------- *)

MaxBatch == 2
MaxTopK == 6
MaxCtx == 6
MaxStore == 2

(* ------------------------------ strings ------------------------------- *)

Whitespace == {" ", "\t", "\n"}

lower_char(c) ==
  CASE c = "A" -> "a"
    [] c = "B" -> "b"
    [] OTHER -> c

str_lower(s) == [i \in 1..Len(s) |-> lower_char(s[i])]

RECURSIVE split_from(_, _, _)
split_from(s, i, word) ==
  IF i > Len(s)
  THEN IF word = <<>> THEN <<>> ELSE <<word>>
  ELSE IF s[i] \in Whitespace
       THEN IF word = <<>>
            THEN split_from(s, i + 1, <<>>)
            ELSE <<word>> \o split_from(s, i + 1, <<>>)
       ELSE split_from(s, i + 1, Append(word, s[i]))

RECURSIVE split_keep_empty(_, _, _)
split_keep_empty(s, i, word) ==
  IF i > Len(s) THEN <<word>>
  ELSE IF s[i] \in Whitespace
       THEN <<word>> \o split_keep_empty(s, i + 1, <<>>)
       ELSE split_keep_empty(s, i + 1, Append(word, s[i]))

str_split_keep_empty(s) == split_keep_empty(s, 1, <<>>)

(* str.split() with no argument *)
str_split(s) == split_from(s, 1, <<>>)

str_in(term, text) ==
  \E i \in 0..(Len(text) - Len(term)) : SubSeq(text, i + 1, i + Len(term)) = term

Min(a, b) == IF a < b THEN a ELSE b
Max(a, b) == IF a > b THEN a ELSE b

slice_to_inclusive(s, k) ==
  IF k >= 0 THEN SubSeq(s, 1, Min(k + 1, Len(s)))
  ELSE SubSeq(s, 1, Max(Len(s) + k + 1, 0))

(* s[:k] *)
slice_to(s, k) ==
  IF k >= 0 THEN SubSeq(s, 1, Min(k, Len(s)))
  ELSE SubSeq(s, 1, Max(Len(s) + k, 0))

(* ------------------------------ inputs -------------------------------- *)

Contents == {<<"a">>, <<"A", "b">>}
Titles == {<<"T">>, <<"U">>}
ExplicitDocs == {[id |-> "d1", content |-> <<"a">>, title |-> <<"U">>]}
Queries == {<<>>, <<" ">>, <<"a">>, <<"b">>, <<"a", "b">>, <<"A", " ", " ", "a", "\n", "b">>}
TopKs == 1..MaxTopK
Timestamps == {"2024-01-01T00:00:00", "2024-01-01T00:00:01"}

(* ------------------------------ Document ------------------------------ *)

(* a content longer than the excerpt of synthesize *)
LongContent == [i \in 1..201 |-> "a"]

md5(content) ==
  CASE content = <<"a">> -> "0cc175b9c0f1b6a831c399e269772661"
    [] content = <<>> -> "d41d8cd98f00b204e9800998ecf8427e"
    [] content = <<" ">> -> "7215ee9c7d9dc229d2921a40e899ec5f"
    [] content = <<"b", "a">> -> "07159c47ee1b19ae4fb9c40d480856c4"
    [] content = LongContent -> "15936442c22dab9b685de350bfe75971"
    [] content = <<"b">> -> "92eb5ffee6ae2fec3ad71c777531578f"
    [] content = <<"A", "b">> -> "0e4c46df226b9c0cb391311c54f28efe"
    [] content = <<"a", "b">> -> "187ef4436122d1cc2f40dc2b92f0eba0"
    [] content = <<"a", "a">> -> "4124bc0a9335c27f086f24ba207a4912"
    [] content = <<"c">> -> "4a8a08f09d37b73795649038408b5f33"

Document_normalised(id, content, title) ==
  [id |-> IF id = "" THEN md5(str_lower(content)) ELSE id,
   content |-> content, title |-> title]

Document(id, content, title) ==
  [id |-> IF id = "" THEN md5(content) ELSE id, content |-> content, title |-> title]

(* ------------------------- KnowledgeGraphIndex ------------------------ *)

dict_has(d, key) == \E i \in 1..Len(d) : d[i].id = key

dict_set_first_wins(d, doc) ==
  IF dict_has(d, doc.id) THEN d ELSE Append(d, doc)

dict_set_move_to_end(d, doc) ==
  Append(SelectSeq(d, LAMBDA e : e.id # doc.id), doc)

(* d[doc.id] = doc: a key already present keeps its place *)
dict_set(d, doc) ==
  IF dict_has(d, doc.id)
  THEN [i \in 1..Len(d) |-> IF d[i].id = doc.id THEN doc ELSE d[i]]
  ELSE Append(d, doc)

dict_del_last(d, key) == SubSeq(d, 1, Len(d) - 1)

dict_del(d, key) == SelectSeq(d, LAMBDA e : e.id # key)

None == [none |-> TRUE]

dict_get(d, key) ==
  IF dict_has(d, key) THEN d[CHOOSE i \in 1..Len(d) : d[i].id = key] ELSE None

RECURSIVE set_all_reversed(_, _)
set_all_reversed(d, docs) ==
  IF docs = <<>> THEN d ELSE dict_set(set_all_reversed(d, Tail(docs)), Head(docs))

RECURSIVE set_all(_, _)
set_all(d, docs) ==
  IF docs = <<>> THEN d ELSE set_all(dict_set(d, Head(docs)), Tail(docs))

add_documents_if_any(self, docs) ==
  [documents |-> set_all(self.documents, docs),
   indexed |-> self.indexed \/ docs # <<>>]

add_documents(self, docs) ==
  [documents |-> set_all(self.documents, docs), indexed |-> TRUE]

RECURSIVE score_from_distinct(_, _, _)
score_from_distinct(query_terms, content_lower, i) ==
  IF i > Len(query_terms) THEN 0
  ELSE (IF /\ str_in(query_terms[i], content_lower)
           /\ \A j \in 1..(i - 1) : query_terms[j] # query_terms[i]
        THEN 1 ELSE 0)
       + score_from_distinct(query_terms, content_lower, i + 1)

RECURSIVE score_from(_, _, _)
score_from(query_terms, content_lower, i) ==
  IF i > Len(query_terms) THEN 0
  ELSE (IF str_in(query_terms[i], content_lower) THEN 1 ELSE 0)
       + score_from(query_terms, content_lower, i + 1)

doc_score(query_terms, doc) == score_from(query_terms, str_lower(doc.content), 1)

RECURSIVE score_docs(_, _)
score_docs(query_terms, docs) ==
  IF docs = <<>> THEN <<>>
  ELSE LET score == doc_score(query_terms, Head(docs))
       IN (IF score > 0 THEN <<[score |-> score, doc |-> Head(docs)]>> ELSE <<>>)
          \o score_docs(query_terms, Tail(docs))

insert_asc(sorted, x) ==
  LET n == Cardinality({i \in 1..Len(sorted) : sorted[i].score <= x.score})
  IN SubSeq(sorted, 1, n) \o <<x>> \o SubSeq(sorted, n + 1, Len(sorted))

insert_desc_unstable(sorted, x) ==
  LET n == Cardinality({i \in 1..Len(sorted) : sorted[i].score > x.score})
  IN SubSeq(sorted, 1, n) \o <<x>> \o SubSeq(sorted, n + 1, Len(sorted))

(* list.sort(key=score, reverse=True) is stable: an element goes after     *)
(* every element already placed whose score is at least its own.           *)
insert_desc(sorted, x) ==
  LET n == Cardinality({i \in 1..Len(sorted) : sorted[i].score >= x.score})
  IN SubSeq(sorted, 1, n) \o <<x>> \o SubSeq(sorted, n + 1, Len(sorted))

RECURSIVE sort_desc(_)
sort_desc(s) ==
  IF s = <<>> THEN <<>>
  ELSE insert_desc(sort_desc(SubSeq(s, 1, Len(s) - 1)), s[Len(s)])

query_unguarded(self, query_text, top_k) ==
  LET query_terms == str_split(str_lower(query_text))
      scored_docs == sort_desc(score_docs(query_terms, self.documents))
      top == slice_to(scored_docs, top_k)
  IN [i \in 1..Len(top) |-> top[i].doc]

query(self, query_text, top_k) ==
  IF ~self.indexed THEN <<>>
  ELSE LET query_terms == str_split(str_lower(query_text))
           scored_docs == sort_desc(score_docs(query_terms, self.documents))
           top == slice_to(scored_docs, top_k)
       IN [i \in 1..Len(top) |-> top[i].doc]

get_document(self, doc_id) == dict_get(self.documents, doc_id)

list_documents(self) == self.documents

clear_flag_only(self) == [documents |-> self.documents, indexed |-> FALSE]

clear(self) == [documents |-> <<>>, indexed |-> FALSE]

document_count(self) == Len(self.documents)

(* ------------------------------ QueryEngine --------------------------- *)

DefaultTopK == 5
ExcerptLen == 200

NoDocumentsMsg ==
  <<"N", "o", " ", "r", "e", "l", "e", "v", "a", "n", "t", " ", "d", "o", "c", "u", "m",
    "e", "n", "t", "s", " ", "f", "o", "u", "n", "d", " ", "f", "o", "r", " ", "t", "h",
    "i", "s", " ", "q", "u", "e", "r", "y", ".">>

NoInfoMsg ==
  <<"N", "o", " ", "r", "e", "l", "e", "v", "a", "n", "t", " ", "i", "n", "f", "o", "r",
    "m", "a", "t", "i", "o", "n", " ", "f", "o", "u", "n", "d", ".">>

HeaderPrefix ==
  <<"B", "a", "s", "e", "d", " ", "o", "n", " ", "t", "h", "e", " ", "r", "e", "s", "e",
    "a", "r", "c", "h", " ", "d", "o", "c", "u", "m", "e", "n", "t", "s", ",", " ", "h",
    "e", "r", "e", "'", "s", " ", "t", "h", "e", " ", "s", "y", "n", "t", "h", "e", "s",
    "i", "s", " ", "f", "o", "r", ":", " ", "'">>

KeyFindings ==
  <<"K", "e", "y", " ", "f", "i", "n", "d", "i", "n", "g", "s", ":">>

Closing ==
  <<"T", "h", "i", "s", " ", "s", "y", "n", "t", "h", "e", "s", "i", "s", " ", "c", "o",
    "m", "b", "i", "n", "e", "s", " ", "i", "n", "s", "i", "g", "h", "t", "s", " ", "f",
    "r", "o", "m", " ", "m", "u", "l", "t", "i", "p", "l", "e", " ", "s", "o", "u", "r",
    "c", "e", "s", ".">>

FromPrefix == <<"F", "r", "o", "m", " ", "'">>
FromMid == <<"'", ":", " ">>
Ellipsis == <<".", ".", ".">>

Digits == <<"0", "1", "2", "3", "4", "5", "6", "7", "8", "9">>

RECURSIVE str_int(_)
str_int(n) ==
  IF n < 10 THEN <<Digits[n + 1]>>
  ELSE str_int(n \div 10) \o <<Digits[(n % 10) + 1]>>

RECURSIVE str_join(_, _)
str_join(sep, parts) ==
  IF parts = <<>> THEN <<>>
  ELSE IF Len(parts) = 1 THEN parts[1]
  ELSE parts[1] \o sep \o str_join(sep, Tail(parts))

excerpt_if_cut(doc) ==
  FromPrefix \o doc.title \o FromMid \o slice_to(doc.content, ExcerptLen)
    \o (IF Len(doc.content) > ExcerptLen THEN Ellipsis ELSE <<>>)

excerpt(doc) ==
  FromPrefix \o doc.title \o FromMid \o slice_to(doc.content, ExcerptLen) \o Ellipsis

generate_response(query_text, content_pieces) ==
  IF content_pieces = <<>> THEN NoInfoMsg
  ELSE LET head == <<HeaderPrefix \o query_text \o <<"'">>, <<>>, KeyFindings>>
           numbered == [i \in 1..Len(content_pieces) |->
                          str_int(i) \o <<".", " ">> \o content_pieces[i]]
           response_parts == head \o numbered \o <<<<>>, Closing>>
       IN str_join(<<"\n">>, response_parts)

confidence_uncapped(n) == 50 + (n * 10)

(* confidence is a float in the code; the model keeps it in hundredths:   *)
(* 0.5 + 0.1 * n is 50 + 10 * n, 0.95 is 95 and 0.0 is 0.                 *)
confidence_of(n) == Min(50 + (n * 10), 95)

synthesize_from_index(self, query_text, context_docs, now) ==
  LET context == IF context_docs = None \/ context_docs = [docs |-> <<>>]
                 THEN query(self, query_text, DefaultTopK)
                 ELSE context_docs.docs
  IN IF context = <<>>
     THEN [query |-> query_text,
           response |-> NoDocumentsMsg,
           sources |-> <<>>,
           confidence |-> 0,
           metadata |-> [status |-> "no_results"]]
     ELSE LET relevant_content == [i \in 1..Len(context) |-> excerpt(context[i])]
          IN [query |-> query_text,
              response |-> generate_response(query_text, relevant_content),
              sources |-> context,
              confidence |-> confidence_of(Len(context)),
              metadata |-> [status |-> "success",
                            document_count |-> Len(context),
                            timestamp |-> now]]

synthesize_count_index(self, query_text, context_docs, now) ==
  LET context == IF context_docs = None
                 THEN query(self, query_text, DefaultTopK)
                 ELSE context_docs.docs
  IN IF context = <<>>
     THEN [query |-> query_text,
           response |-> NoDocumentsMsg,
           sources |-> <<>>,
           confidence |-> 0,
           metadata |-> [status |-> "no_results"]]
     ELSE LET relevant_content == [i \in 1..Len(context) |-> excerpt(context[i])]
          IN [query |-> query_text,
              response |-> generate_response(query_text, relevant_content),
              sources |-> context,
              confidence |-> confidence_of(Len(context)),
              metadata |-> [status |-> "success",
                            document_count |-> document_count(self),
                            timestamp |-> now]]

synthesize_unlimited(self, query_text, context_docs, now) ==
  LET context == IF context_docs = None
                 THEN query(self, query_text, document_count(self))
                 ELSE context_docs.docs
  IN IF context = <<>>
     THEN [query |-> query_text,
           response |-> NoDocumentsMsg,
           sources |-> <<>>,
           confidence |-> 0,
           metadata |-> [status |-> "no_results"]]
     ELSE LET relevant_content == [i \in 1..Len(context) |-> excerpt(context[i])]
          IN [query |-> query_text,
              response |-> generate_response(query_text, relevant_content),
              sources |-> context,
              confidence |-> confidence_of(Len(context)),
              metadata |-> [status |-> "success",
                            document_count |-> Len(context),
                            timestamp |-> now]]

(* context_docs is None (the record None) or [docs |-> the list]; now is   *)
(* the value of datetime.utcnow().isoformat() at the call.                 *)
synthesize(self, query_text, context_docs, now) ==
  LET context == IF context_docs = None
                 THEN query(self, query_text, DefaultTopK)
                 ELSE context_docs.docs
  IN IF context = <<>>
     THEN [query |-> query_text,
           response |-> NoDocumentsMsg,
           sources |-> <<>>,
           confidence |-> 0,
           metadata |-> [status |-> "no_results"]]
     ELSE LET relevant_content == [i \in 1..Len(context) |-> excerpt(context[i])]
          IN [query |-> query_text,
              response |-> generate_response(query_text, relevant_content),
              sources |-> context,
              confidence |-> confidence_of(Len(context)),
              metadata |-> [status |-> "success",
                            document_count |-> Len(context),
                            timestamp |-> now]]

(* --------------------------- DocumentIngestor ------------------------- *)

ingest_text_checked(self, content, title) ==
  LET doc == Document("", content, title)
  IN IF content = <<>> \/ title = <<>>
     THEN [index |-> self, result |-> doc]
     ELSE [index |-> add_documents(self, <<doc>>), result |-> doc]

ingest_text(self, content, title) ==
  LET doc == Document("", content, title)
  IN [index |-> add_documents(self, <<doc>>), result |-> doc]

ingest_batch_distinct(self, documents_data) ==
  LET docs == [i \in 1..Len(documents_data) |->
                 Document("", documents_data[i].content, documents_data[i].title)]
  IN [index |-> add_documents(self, docs), result |-> set_all(<<>>, docs)]

ingest_batch(self, documents_data) ==
  LET docs == [i \in 1..Len(documents_data) |->
                 Document("", documents_data[i].content, documents_data[i].title)]
  IN [index |-> add_documents(self, docs), result |-> docs]

(* Strings too long to enumerate are run-length encoded for validation:    *)
(* a sequence of runs [ch, n], each standing for n >= 1 copies of ch.      *)
MaxContentSize == 10000000

RECURSIVE rle_len(_)
rle_len(s) == IF s = <<>> THEN 0 ELSE Head(s).n + rle_len(Tail(s))

RECURSIVE rle_lstrip(_)
rle_lstrip(s) ==
  IF s = <<>> THEN <<>>
  ELSE IF Head(s).ch \in Whitespace THEN rle_lstrip(Tail(s)) ELSE s

RECURSIVE rle_rstrip(_)
rle_rstrip(s) ==
  IF s = <<>> THEN <<>>
  ELSE IF s[Len(s)].ch \in Whitespace THEN rle_rstrip(SubSeq(s, 1, Len(s) - 1)) ELSE s

rle_strip(s) == rle_rstrip(rle_lstrip(s))

rle_of(s) == [i \in 1..Len(s) |-> [ch |-> s[i], n |-> 1]]

py_not(s) == rle_len(s) = 0

validate_document_title_first(content, title) ==
  IF py_not(title) \/ py_not(rle_strip(title))
  THEN [is_valid |-> FALSE, error_message |-> "Document title cannot be empty"]
  ELSE IF py_not(content) \/ py_not(rle_strip(content))
  THEN [is_valid |-> FALSE, error_message |-> "Document content cannot be empty"]
  ELSE IF rle_len(content) > MaxContentSize
  THEN [is_valid |-> FALSE, error_message |-> "Document content exceeds maximum size (10MB)"]
  ELSE [is_valid |-> TRUE, error_message |-> None]

validate_document(content, title) ==
  IF py_not(content) \/ py_not(rle_strip(content))
  THEN [is_valid |-> FALSE, error_message |-> "Document content cannot be empty"]
  ELSE IF py_not(title) \/ py_not(rle_strip(title))
  THEN [is_valid |-> FALSE, error_message |-> "Document title cannot be empty"]
  ELSE IF rle_len(content) > MaxContentSize
  THEN [is_valid |-> FALSE, error_message |-> "Document content exceeds maximum size (10MB)"]
  ELSE [is_valid |-> TRUE, error_message |-> None]

(* --------------------- request handlers of main.py -------------------- *)
(* A request carries its strings run-length encoded, as validate_document  *)
(* reads them; rle_expand writes such a string out in full for the         *)
(* ingestor.  detail is the list of the pieces the handler formats into    *)
(* the error text.                                                         *)

RECURSIVE rle_expand(_)
rle_expand(s) ==
  IF s = <<>> THEN <<>>
  ELSE [i \in 1..Head(s).n |-> Head(s).ch] \o rle_expand(Tail(s))

ingest_document(self, request) ==
  LET v == validate_document(request.content, request.title)
  IN IF ~v.is_valid
     THEN [index |-> self, status |-> 400, detail |-> <<v.error_message>>,
           documents |-> <<>>]
     ELSE LET r == ingest_text(self, rle_expand(request.content), rle_expand(request.title))
          IN [index |-> r.index, status |-> 201, detail |-> <<>>,
              documents |-> <<r.result>>]

(* the validation loop: the index i of enumerate (from 0) of the first     *)
(* item validate_document rejects, -1 when the loop runs to its end        *)
RECURSIVE first_invalid(_, _)
first_invalid(doc_requests, i) ==
  IF i >= Len(doc_requests) THEN -1
  ELSE IF ~validate_document(doc_requests[i + 1].content, doc_requests[i + 1].title).is_valid
       THEN i
       ELSE first_invalid(doc_requests, i + 1)

batch_error(doc_requests, i) ==
  <<"Document ", str_int(i + 1), ": ",
    validate_document(doc_requests[i + 1].content, doc_requests[i + 1].title).error_message>>

RECURSIVE ingest_each_from(_, _, _, _)
ingest_each_from(self, doc_requests, i, done) ==
  IF i >= Len(doc_requests)
  THEN [index |-> self, status |-> 201, detail |-> <<>>,
        ingested_count |-> Len(done), documents |-> done]
  ELSE IF ~validate_document(doc_requests[i + 1].content, doc_requests[i + 1].title).is_valid
       THEN [index |-> self, status |-> 400, detail |-> batch_error(doc_requests, i),
             ingested_count |-> 0, documents |-> <<>>]
       ELSE LET r == ingest_text(self, rle_expand(doc_requests[i + 1].content),
                                 rle_expand(doc_requests[i + 1].title))
            IN ingest_each_from(r.index, doc_requests, i + 1, Append(done, r.result))

main_ingest_batch_eager(self, request) ==
  IF request.documents = <<>>
  THEN [index |-> self, status |-> 400, detail |-> <<"No documents provided">>,
        ingested_count |-> 0, documents |-> <<>>]
  ELSE ingest_each_from(self, request.documents, 0, <<>>)

(* ingest_batch of main.py *)
main_ingest_batch(self, request) ==
  IF request.documents = <<>>
  THEN [index |-> self, status |-> 400, detail |-> <<"No documents provided">>,
        ingested_count |-> 0, documents |-> <<>>]
  ELSE LET i == first_invalid(request.documents, 0)
       IN IF i >= 0
          THEN [index |-> self, status |-> 400, detail |-> batch_error(request.documents, i),
                ingested_count |-> 0, documents |-> <<>>]
          ELSE LET docs_data == [k \in 1..Len(request.documents) |->
                                   [content |-> rle_expand(request.documents[k].content),
                                    title |-> rle_expand(request.documents[k].title)]]
                   docs == ingest_batch(self, docs_data)
               IN [index |-> docs.index, status |-> 201, detail |-> <<>>,
                   ingested_count |-> Len(docs.result), documents |-> docs.result]

(* ---------------------- handlers as coroutines ------------------------ *)
(* Every handler of main.py is an `async def` that the one event loop of   *)
(* uvicorn runs as a coroutine: a started handler keeps the loop until it  *)
(* reaches an await or returns.  A task records the handler it runs (op),  *)
(* its position (pc), its locals, the map it found when it started         *)
(* (before), the add_documents calls it has completed (adds) and its HTTP  *)
(* status (0 while it runs, 500 for an exception no handler catches).      *)

Handlers == {"h1", "h2"}

Idle ==
  [pc |-> "idle", op |-> "none", doc_id |-> "", docs |-> <<>>, i |-> 0,
   before |-> <<>>, adds |-> 0, seen |-> <<>>, status |-> 0]

awaits_anywhere(op, pc) == TRUE

(* whether the handler op hands the loop to other coroutines at pc: no     *)
(* handler body holds an await expression                                  *)
awaits(op, pc) == FALSE

Running(h) == tasks[h].pc \notin {"idle", "done"}

MayRun(h) ==
  \A g \in Handlers \ {h} : Running(g) => awaits(tasks[g].op, tasks[g].pc)

batch_pc_per_item(pc, i, n) ==
  CASE pc = "call" -> "set"
    [] pc = "set" -> "flag"
    [] pc = "flag" -> IF i < n THEN "set" ELSE "done"

(* the position after the step at pc of ingest_batch with n documents of   *)
(* which i are stored: one add_documents call, whose loop stores every     *)
(* document before the flag is set                                         *)
batch_pc(pc, i, n) ==
  CASE pc = "call" -> IF i < n THEN "set" ELSE "flag"
    [] pc = "set" -> IF i < n THEN "set" ELSE "flag"
    [] pc = "flag" -> "done"

(* ------------------------------ actions ------------------------------- *)

Self == [documents |-> documents, indexed |-> indexed]

DocInputs == {Document("", c, t) : c \in Contents, t \in Titles} \cup ExplicitDocs
ItemInputs == [content : Contents, title : Titles]
Batches(S) == UNION {[1..n -> S] : n \in 0..MaxBatch}
DocIds == {d.id : d \in DocInputs}

Init ==
  /\ documents = <<>>
  /\ indexed = FALSE
  /\ ret = [op |-> "init"]
  /\ added = FALSE
  /\ tasks = [h \in Handlers |-> Idle]

AddDocuments ==
  \E docs \in Batches(DocInputs) :
    LET new == add_documents(Self, docs)
    IN /\ documents' = new.documents
       /\ indexed' = new.indexed
       /\ ret' = [op |-> "add_documents", documents |-> docs]
       /\ added' = TRUE
       /\ UNCHANGED tasks

IngestText ==
  \E content \in Contents, title \in Titles :
    LET r == ingest_text(Self, content, title)
    IN /\ documents' = r.index.documents
       /\ indexed' = r.index.indexed
       /\ ret' = [op |-> "ingest_text", result |-> r.result]
       /\ added' = TRUE
       /\ UNCHANGED tasks

IngestBatch ==
  \E documents_data \in Batches(ItemInputs) :
    LET r == ingest_batch(Self, documents_data)
    IN /\ documents' = r.index.documents
       /\ indexed' = r.index.indexed
       /\ ret' = [op |-> "ingest_batch", result |-> r.result]
       /\ added' = TRUE
       /\ UNCHANGED tasks

Clear ==
  LET new == clear(Self)
  IN /\ documents' = new.documents
     /\ indexed' = new.indexed
     /\ ret' = [op |-> "clear"]
     /\ added' = FALSE
     /\ UNCHANGED tasks

DeleteDocument ==
  \E doc_id \in DocIds :
    LET doc == get_document(Self, doc_id)
    IN IF doc = None
       THEN /\ ret' = [op |-> "delete_document", doc_id |-> doc_id, status |-> 404]
            /\ UNCHANGED <<documents, indexed, added, tasks>>
       ELSE /\ documents' = dict_del(documents, doc_id)
            /\ ret' = [op |-> "delete_document", doc_id |-> doc_id, status |-> 204]
            /\ UNCHANGED <<indexed, added, tasks>>

GetDocument ==
  \E doc_id \in DocIds :
    /\ ret' = [op |-> "get_document", doc_id |-> doc_id, result |-> get_document(Self, doc_id)]
    /\ UNCHANGED <<documents, indexed, added, tasks>>

ListDocuments ==
  /\ ret' = [op |-> "list_documents", result |-> list_documents(Self)]
  /\ UNCHANGED <<documents, indexed, added, tasks>>

DocumentCount ==
  /\ ret' = [op |-> "document_count", result |-> document_count(Self)]
  /\ UNCHANGED <<documents, indexed, added, tasks>>

Query ==
  \E query_text \in Queries, top_k \in TopKs :
    /\ ret' = [op |-> "query", query_text |-> query_text, top_k |-> top_k,
               result |-> query(Self, query_text, top_k)]
    /\ UNCHANGED <<documents, indexed, added, tasks>>

Synthesize ==
  \E query_text \in Queries, now \in Timestamps :
    /\ ret' = [op |-> "synthesize", query_text |-> query_text,
               context_docs |-> None,
               result |-> synthesize(Self, query_text, None, now)]
    /\ UNCHANGED <<documents, indexed, added, tasks>>

Next ==
  \/ AddDocuments
  \/ IngestText
  \/ IngestBatch
  \/ Clear
  \/ DeleteDocument
  \/ GetDocument
  \/ ListDocuments
  \/ DocumentCount
  \/ Query
  \/ Synthesize

Spec == Init /\ [][Next]_vars

(* ------------------- the operations as functions ---------------------- *)
(* query, synthesize and validate_document read the index and their        *)
(* arguments and change nothing.  QuerySpec and FnSpec apply them once to  *)
(* an index whose two public fields hold any value from the bounded sets   *)
(* (main.py:321 writes the documents field from outside the class).        *)
(* FnSpec also applies once the Document constructor, ingest_text on       *)
(* unvalidated arguments and the two ingest handlers of main.py.           *)

FnContents == {<<"a">>, <<"b">>, <<"A", "b">>, <<"a", "a">>, <<"c">>}
FnDocs == {Document("", c, <<"T">>) : c \in FnContents} \cup ExplicitDocs
CtxDocs == {Document("", <<"a">>, <<"T">>), Document("", <<"b">>, <<"U">>)}
SmallDocs == CtxDocs \cup {Document("", <<"A", "b">>, <<"T">>)}

Stores(D, n) ==
  {s \in UNION {[1..k -> D] : k \in 0..n} :
     \A i, j \in 1..Len(s) : s[i].id = s[j].id => i = j}

LongDoc == Document("", LongContent, <<"U">>)
LongContexts == {<<LongDoc>>, <<Document("", <<"a">>, <<"T">>), LongDoc>>}
Contexts == UNION {[1..n -> CtxDocs] : n \in 0..MaxCtx} \cup LongContexts

(* six documents that all hold a term of the last query of Queries *)
BigStore ==
  <<Document("", <<"a">>, <<"T">>), Document("", <<"b">>, <<"T">>),
    Document("", <<"A", "b">>, <<"T">>), Document("", <<"a", "b">>, <<"T">>),
    Document("", <<"b", "a">>, <<"T">>), Document("d1", <<"a">>, <<"U">>)>>

(* arguments of the Document constructor and of ingest_text, also those    *)
(* validate_document rejects                                               *)
NewIds == {"", "d1"}
NewContents == {<<"a">>, <<"A", "b">>, <<"a", "b">>}
Sources == {"manual", "api"}
Metadatas == {"{}", "{'k': 'v'}"}
NewArgs == [id : NewIds, content : NewContents, title : Titles,
            source : Sources, metadata : Metadatas]
RawContents == Contents \cup {<<>>, <<" ">>}
RawTitles == Titles \cup {<<>>, <<" ">>}

rep(c, n) == IF n = 0 THEN <<>> ELSE <<[ch |-> c, n |-> n]>>
Sizes == {0, 1, MaxContentSize - 1, MaxContentSize, MaxContentSize + 1}
ValContents ==
  {rep(c, n) : c \in {" ", "x"}, n \in Sizes}
    \cup {rep(" ", 1) \o rep("x", n) \o rep("\n", 1) : n \in Sizes}
ValTitles == {rep(c, n) : c \in {"\t", "T"}, n \in {0, 1, 2}} \cup {rep(" ", 1) \o rep("T", 1)}

SynthesizeWith ==
  \E query_text \in Queries, docs \in Contexts, now \in Timestamps :
    /\ ret' = [op |-> "synthesize", query_text |-> query_text,
               context_docs |-> [docs |-> docs],
               result |-> synthesize(Self, query_text, [docs |-> docs], now)]
    /\ UNCHANGED <<documents, indexed, added, tasks>>

ValidateDocument ==
  \E content \in ValContents, title \in ValTitles :
    /\ ret' = [op |-> "validate_document", content |-> content, title |-> title,
               result |-> validate_document(content, title)]
    /\ UNCHANGED <<documents, indexed, added, tasks>>

(* request bodies the schema of main.py admits (content and title of at   *)
(* least one character), also those validate_document rejects             *)
RequestContents ==
  {rle_of(c) : c \in Contents} \cup {rep(" ", 2), rep("x", MaxContentSize + 1)}
RequestTitles == {rle_of(t) : t \in Titles} \cup {rep("\t", 1)}
DocRequests == [content : RequestContents, title : RequestTitles]

PostIngest ==
  \E request \in DocRequests :
    LET r == ingest_document(Self, request)
    IN /\ documents' = r.index.documents
       /\ indexed' = r.index.indexed
       /\ ret' = [op |-> "POST /ingest", request |-> request, status |-> r.status,
                  detail |-> r.detail, documents |-> r.documents]
       /\ added' = (added \/ r.status = 201)
       /\ UNCHANGED tasks

PostIngestBatch ==
  \E doc_requests \in Batches(DocRequests) :
    LET request == [documents |-> doc_requests]
        r == main_ingest_batch(Self, request)
    IN /\ documents' = r.index.documents
       /\ indexed' = r.index.indexed
       /\ ret' = [op |-> "POST /ingest/batch", request |-> request, status |-> r.status,
                  detail |-> r.detail, ingested_count |-> r.ingested_count,
                  documents |-> r.documents]
       /\ added' = (added \/ r.status = 201)
       /\ UNCHANGED tasks

(* Document(...) called twice, for properties that compare two documents;  *)
(* source and metadata are stored as given and take no part in the id.     *)
NewDocument ==
  \E a \in NewArgs, b \in NewArgs :
    /\ ret' = [op |-> "Document", args |-> <<a, b>>,
               docs |-> <<Document(a.id, a.content, a.title),
                          Document(b.id, b.content, b.title)>>]
    /\ UNCHANGED <<documents, indexed, added, tasks>>

IngestRawText ==
  \E content \in RawContents, title \in RawTitles :
    LET r == ingest_text(Self, content, title)
    IN /\ documents' = r.index.documents
       /\ indexed' = r.index.indexed
       /\ ret' = [op |-> "ingest_text", content |-> content, title |-> title,
                  result |-> r.result]
       /\ added' = TRUE
       /\ UNCHANGED tasks

(* every index the public operations can build over FnDocs *)
QueryInit ==
  /\ documents \in Stores(FnDocs, Cardinality(FnDocs))
  /\ indexed \in BOOLEAN
  /\ indexed \/ documents = <<>>
  /\ ret = [op |-> "init"]
  /\ added = indexed
  /\ tasks = [h \in Handlers |-> Idle]

(* every value of the two fields, also those only a direct write gives *)
FieldInit ==
  /\ documents \in Stores(FnDocs, Cardinality(FnDocs))
  /\ indexed \in BOOLEAN
  /\ ret = [op |-> "init"]
  /\ added = indexed
  /\ tasks = [h \in Handlers |-> Idle]

QueryOnce == ret.op = "init" /\ Query

QueryNext == QueryOnce

QuerySpec == QueryInit /\ [][QueryNext]_vars

FieldSpec == FieldInit /\ [][QueryNext]_vars

FnInit ==
  /\ documents \in Stores(SmallDocs, MaxStore) \cup {BigStore}
  /\ indexed \in BOOLEAN
  /\ indexed \/ documents = <<>>
  /\ ret = [op |-> "init"]
  /\ added = indexed
  /\ tasks = [h \in Handlers |-> Idle]

SynthesizeOnce == ret.op = "init" /\ Synthesize
SynthesizeWithOnce == ret.op = "init" /\ SynthesizeWith
ValidateDocumentOnce == ret.op = "init" /\ ValidateDocument
NewDocumentOnce == ret.op = "init" /\ NewDocument
IngestRawTextOnce == ret.op = "init" /\ IngestRawText
PostIngestOnce == ret.op = "init" /\ PostIngest
PostIngestBatchOnce == ret.op = "init" /\ PostIngestBatch

FnNext ==
  \/ SynthesizeOnce
  \/ SynthesizeWithOnce
  \/ ValidateDocumentOnce
  \/ NewDocumentOnce
  \/ IngestRawTextOnce
  \/ PostIngestOnce
  \/ PostIngestBatchOnce

FnSpec == FnInit /\ [][FnNext]_vars

(* ----------------------- concurrent requests -------------------------- *)
(* Each handler slot serves one request: a delete, a batch ingest or a     *)
(* list.  A step is one access to the shared index together with the       *)
(* local computation that precedes it.                                     *)

TaskContents == {rle_of(c) : c \in Contents}
TaskRequests == [content : TaskContents, title : {rle_of(<<"T">>)}]
TaskDocs == {Document("", c, <<"U">>) : c \in Contents}
TaskIds == {d.id : d \in TaskDocs}

ConcInit ==
  /\ documents \in Stores(TaskDocs, MaxStore)
  /\ indexed \in BOOLEAN
  /\ indexed \/ documents = <<>>
  /\ ret = [op |-> "init"]
  /\ added = indexed
  /\ tasks = [h \in Handlers |-> Idle]

(* delete_document up to the existence check *)
DeleteCheck(h) ==
  /\ tasks[h].pc = "idle"
  /\ \E doc_id \in TaskIds :
       LET doc == get_document(Self, doc_id)
       IN tasks' = [tasks EXCEPT ![h] =
                      IF doc = None
                      THEN [Idle EXCEPT !.op = "delete_document", !.doc_id = doc_id,
                                        !.pc = "done", !.status = 404]
                      ELSE [Idle EXCEPT !.op = "delete_document", !.doc_id = doc_id,
                                        !.pc = "del"]]
  /\ UNCHANGED <<documents, indexed, ret, added>>

(* del knowledge_index.documents[doc_id]: KeyError when the key is gone *)
DeleteRemove(h) ==
  /\ tasks[h].pc = "del"
  /\ IF dict_has(documents, tasks[h].doc_id)
     THEN /\ documents' = dict_del(documents, tasks[h].doc_id)
          /\ tasks' = [tasks EXCEPT ![h].pc = "done", ![h].status = 204]
     ELSE /\ documents' = documents
          /\ tasks' = [tasks EXCEPT ![h].pc = "done", ![h].status = 500]
  /\ UNCHANGED <<indexed, ret, added>>

(* ingest_batch of main.py up to the add_documents call of the ingestor *)
BatchCall(h) ==
  /\ tasks[h].pc = "idle"
  /\ \E doc_requests \in Batches(TaskRequests) :
       tasks' = [tasks EXCEPT ![h] =
                   IF doc_requests = <<>> \/ first_invalid(doc_requests, 0) >= 0
                   THEN [Idle EXCEPT !.op = "ingest_batch", !.pc = "done", !.status = 400]
                   ELSE LET docs == [k \in 1..Len(doc_requests) |->
                                       Document("", rle_expand(doc_requests[k].content),
                                                rle_expand(doc_requests[k].title))]
                        IN [Idle EXCEPT !.op = "ingest_batch", !.docs = docs,
                                        !.before = documents,
                                        !.pc = batch_pc("call", 0, Len(docs))]]
  /\ UNCHANGED <<documents, indexed, ret, added>>

(* self.documents[doc.id] = doc *)
BatchSet(h) ==
  /\ tasks[h].pc = "set"
  /\ documents' = dict_set(documents, tasks[h].docs[tasks[h].i + 1])
  /\ tasks' = [tasks EXCEPT ![h].i = @ + 1,
                            ![h].pc = batch_pc("set", tasks[h].i + 1, Len(tasks[h].docs))]
  /\ UNCHANGED <<indexed, ret, added>>

(* self.indexed = True, the end of one add_documents call *)
BatchFlag(h) ==
  /\ tasks[h].pc = "flag"
  /\ indexed' = TRUE
  /\ added' = TRUE
  /\ LET pc == batch_pc("flag", tasks[h].i, Len(tasks[h].docs))
     IN tasks' = [tasks EXCEPT ![h].adds = @ + 1, ![h].pc = pc,
                               ![h].status = IF pc = "done" THEN 201 ELSE 0]
  /\ UNCHANGED <<documents, ret>>

ListAll(h) ==
  /\ tasks[h].pc = "idle"
  /\ tasks' = [tasks EXCEPT ![h] =
                 [Idle EXCEPT !.op = "list_documents", !.seen = list_documents(Self),
                              !.pc = "done", !.status = 200]]
  /\ UNCHANGED <<documents, indexed, ret, added>>

(* the event loop resumes a handler only when no other one holds it *)
DeleteCheckStep == \E h \in Handlers : MayRun(h) /\ DeleteCheck(h)
DeleteRemoveStep == \E h \in Handlers : MayRun(h) /\ DeleteRemove(h)
BatchCallStep == \E h \in Handlers : MayRun(h) /\ BatchCall(h)
BatchSetStep == \E h \in Handlers : MayRun(h) /\ BatchSet(h)
BatchFlagStep == \E h \in Handlers : MayRun(h) /\ BatchFlag(h)
ListAllStep == \E h \in Handlers : MayRun(h) /\ ListAll(h)

ConcNext ==
  \/ DeleteCheckStep
  \/ DeleteRemoveStep
  \/ BatchCallStep
  \/ BatchSetStep
  \/ BatchFlagStep
  \/ ListAllStep

ConcSpec == ConcInit /\ [][ConcNext]_vars

(* ------------------------------ properties ---------------------------- *)

Range(f) == {f[i] : i \in DOMAIN f}

(* the score of the ranking algorithm, stated on its own: the number of    *)
(* positions of the lowercased, whitespace-split query whose term occurs   *)
(* in the lowercased content                                               *)
TermCount(query_text, doc) ==
  LET terms == str_split(str_lower(query_text))
  IN Cardinality({k \in 1..Len(terms) : str_in(terms[k], str_lower(doc.content))})

Matching(query_text) ==
  {i \in 1..Len(documents) : TermCount(query_text, documents[i]) >= 1}

PosOf(doc) == CHOOSE i \in 1..Len(documents) : documents[i].id = doc.id

Returned ==
  IF ret.op = "ingest_text" THEN <<ret.result>>
  ELSE IF ret.op = "ingest_batch" THEN ret.result
  ELSE <<>>

(* C1: after ingest_text or ingest_batch (id unset), each ingested content *)
(* has exactly one content-addressed entry in the store, and that entry    *)
(* carries the title of the last ingested document with that content.      *)
C1_OverwriteByContent ==
  \A i \in 1..Len(Returned) :
    LET c == Returned[i].content
        last == CHOOSE j \in 1..Len(Returned) :
                  /\ Returned[j].content = c
                  /\ \A k \in 1..Len(Returned) : Returned[k].content = c => k <= j
        held == {k \in 1..Len(documents) :
                   documents[k].content = c /\ documents[k].id = Returned[i].id}
    IN /\ Cardinality(held) = 1
       /\ \A k \in held : documents[k].title = Returned[last].title

C1_Witness ==
  /\ ret.op = "ingest_batch"
  /\ Len(ret.result) = 2
  /\ ret.result[1].content = ret.result[2].content
  /\ ret.result[1].title # ret.result[2].title
  /\ Len(documents) = 1
  /\ documents[1].title = ret.result[2].title

(* C2: whenever the indexed flag is false, query has returned the empty    *)
(* sequence, whatever text, top_k and document map it was given.           *)
C2_QueryGuard ==
  (ret.op = "query" /\ ~indexed) => ret.result = <<>>

C2_Witness ==
  /\ ret.op = "query"
  /\ ~indexed
  /\ Matching(ret.query_text) # {}
  /\ ret.result = <<>>

(* C3: the indexed flag is true exactly when an add (add_documents,        *)
(* ingest_text, ingest_batch, an empty batch included) has occurred since  *)
(* construction or the last clear; no other operation changes it.          *)
C3_GuardFlagHistory == indexed = added

C3_Witness ==
  /\ ret.op = "add_documents"
  /\ ret.documents = <<>>
  /\ documents = <<>>
  /\ indexed

(* C4: with the guard open, query returns only stored documents of score   *)
(* at least 1, in order of descending score.                               *)
C4_RankingOrder ==
  (ret.op = "query" /\ indexed) =>
    LET r == ret.result
    IN /\ \A i \in 1..Len(r) :
            r[i] \in Range(documents) /\ TermCount(ret.query_text, r[i]) >= 1
       /\ \A i, j \in 1..Len(r) :
            i < j => TermCount(ret.query_text, r[i]) >= TermCount(ret.query_text, r[j])

C4_Witness ==
  /\ ret.op = "query"
  /\ indexed
  /\ Len(documents) = 4
  /\ [i \in 1..4 |-> TermCount(ret.query_text, documents[i])] = <<3, 1, 2, 0>>
  /\ ret.result = <<documents[1], documents[3], documents[2]>>

(* C5: two documents of equal score in a query result stand in the order   *)
(* in which the store enumerates them.                                     *)
C5_StableTies ==
  ret.op = "query" =>
    \A i, j \in 1..Len(ret.result) :
      (/\ i < j
       /\ TermCount(ret.query_text, ret.result[i]) = TermCount(ret.query_text, ret.result[j]))
        => PosOf(ret.result[i]) < PosOf(ret.result[j])

C5_Witness ==
  /\ ret.op = "query"
  /\ Len(ret.result) = 3
  /\ TermCount(ret.query_text, ret.result[1]) = TermCount(ret.query_text, ret.result[2])
  /\ TermCount(ret.query_text, ret.result[2]) > TermCount(ret.query_text, ret.result[3])
  /\ PosOf(ret.result[3]) < PosOf(ret.result[1])
  /\ PosOf(ret.result[1]) < PosOf(ret.result[2])

(* C6: for a positive top_k, query returns min(top_k, number of documents  *)
(* of score >= 1) documents, the first of the full ranked sequence.        *)
C6_TopKTruncation ==
  (ret.op = "query" /\ ret.top_k > 0) =>
    LET full == query(Self, ret.query_text, Len(documents))
        n == Min(ret.top_k, Cardinality(Matching(ret.query_text)))
    IN /\ Len(ret.result) = n
       /\ ret.result = SubSeq(full, 1, n)

C6_Witness ==
  /\ ret.op = "query"
  /\ ret.top_k = 2
  /\ Cardinality(Matching(ret.query_text)) = 5
  /\ Len(ret.result) = 2

Context ==
  IF ret.context_docs = None
  THEN query(Self, ret.query_text, DefaultTopK)
  ELSE ret.context_docs.docs

(* C7: in hundredths, synthesize returns confidence min(50 + 10 n, 95) for *)
(* n >= 1 context documents (between 50 and 95, non-decreasing in n, 95    *)
(* from n = 5 on) and 0 for n = 0; always within 0..100.                   *)
C7_Confidence ==
  ret.op = "synthesize" =>
    LET n == Len(Context)
        c == ret.result.confidence
    IN /\ n = 0 => c = 0
       /\ n \in 1..4 => c = 50 + (10 * n)
       /\ n >= 5 => c = 95
       /\ n >= 1 => (50 <= c /\ c <= 95)
       /\ \A m \in 1..n : confidence_of(m) <= c
       /\ 0 <= c /\ c <= 100

C7_Witness ==
  /\ ret.op = "synthesize"
  /\ Len(Context) = 6
  /\ ret.result.confidence = 95

C8_Response ==
  <<"N", "o", " ", "r", "e", "l", "e", "v", "a", "n", "t", " ", "d", "o", "c", "u", "m",
    "e", "n", "t", "s", " ", "f", "o", "u", "n", "d", " ", "f", "o", "r", " ", "t", "h",
    "i", "s", " ", "q", "u", "e", "r", "y", ".">>

(* C8: when the context is empty, synthesize returns the query echoed, the *)
(* response "No relevant documents found for this query.", no sources,     *)
(* confidence 0 and a metadata mapping whose only key is status, with      *)
(* value "no_results".                                                     *)
C8_NoResults ==
  (ret.op = "synthesize" /\ Context = <<>>) =>
    /\ ret.result.query = ret.query_text
    /\ ret.result.response = C8_Response
    /\ ret.result.sources = <<>>
    /\ ret.result.confidence = 0
    /\ DOMAIN ret.result.metadata = {"status"}
    /\ ret.result.metadata.status = "no_results"

C8_Witness ==
  /\ ret.op = "synthesize"
  /\ ret.context_docs = None
  /\ indexed
  /\ documents # <<>>
  /\ ret.query_text # <<>>
  /\ ret.result.metadata.status = "no_results"
  /\ ret.result.query = ret.query_text

(* C9: when the context is not empty, the sources of the result are the    *)
(* context documents in their order (that of the query step, or that of    *)
(* the supplied list), the status is "success" and document_count is the   *)
(* number of sources.                                                      *)
C9_Success ==
  (ret.op = "synthesize" /\ Context # <<>>) =>
    /\ ret.result.sources = Context
    /\ ret.result.metadata.status = "success"
    /\ ret.result.metadata.document_count = Len(ret.result.sources)

C9_Witness ==
  /\ ret.op = "synthesize"
  /\ ret.context_docs = None
  /\ Len(documents) = 2
  /\ ret.result.sources = <<documents[2], documents[1]>>
  /\ ret.result.metadata.document_count = 2

Blank(s) == \A i \in 1..Len(s) : s[i].ch \in Whitespace

ErrorKind(result) ==
  IF result.is_valid THEN "Ok"
  ELSE IF result.error_message = "Document content cannot be empty" THEN "EmptyContent"
  ELSE IF result.error_message = "Document title cannot be empty" THEN "EmptyTitle"
  ELSE IF result.error_message = "Document content exceeds maximum size (10MB)"
  THEN "ContentTooLarge"
  ELSE "Other"

(* C10: validate reports EmptyContent for empty or whitespace-only         *)
(* content, otherwise EmptyTitle for an empty or whitespace-only title,    *)
(* otherwise ContentTooLarge for content longer than 10,000,000, and       *)
(* otherwise accepts with no error.                                        *)
C10_ValidateOrder ==
  ret.op = "validate_document" =>
    /\ ErrorKind(ret.result) =
         (IF Blank(ret.content) THEN "EmptyContent"
          ELSE IF Blank(ret.title) THEN "EmptyTitle"
          ELSE IF rle_len(ret.content) > 10000000 THEN "ContentTooLarge"
          ELSE "Ok")
    /\ ret.result.is_valid => ret.result.error_message = None

C10_Witness ==
  /\ ret.op = "validate_document"
  /\ Blank(ret.content)
  /\ rle_len(ret.content) > 10000000
  /\ Blank(ret.title)
  /\ ErrorKind(ret.result) = "EmptyContent"

Ids(d) == {d[i].id : i \in 1..Len(d)}

Entry(d, id) == d[CHOOSE i \in 1..Len(d) : d[i].id = id]

(* C13: a delete of a stored id answers 204 and removes exactly that       *)
(* entry, the other entries and the indexed flag staying as they were; a   *)
(* delete of an absent id answers 404 and changes nothing; an id stays     *)
(* absent through every step that is not an add, and get_document answers  *)
(* None exactly for the absent ids.                                        *)
C13_DeleteFrame ==
  /\ [](ret.op = "get_document" =>
          IF ret.doc_id \in Ids(documents)
          THEN ret.result = Entry(documents, ret.doc_id)
          ELSE ret.result = None)
  /\ [][/\ ret'.op = "delete_document" =>
             IF ret'.doc_id \in Ids(documents)
             THEN /\ ret'.status = 204
                  /\ Ids(documents') = Ids(documents) \ {ret'.doc_id}
                  /\ Len(documents') = Len(documents) - 1
                  /\ \A id \in Ids(documents') : Entry(documents', id) = Entry(documents, id)
                  /\ indexed' = indexed
             ELSE /\ ret'.status = 404
                  /\ documents' = documents
                  /\ indexed' = indexed
        /\ ret'.op \notin {"add_documents", "ingest_text", "ingest_batch"} =>
             Ids(documents') \subseteq Ids(documents)]_vars

C13_Witness ==
  /\ ret.op = "delete_document"
  /\ ret.status = 204
  /\ ret.doc_id = md5(<<"a">>)
  /\ indexed
  /\ Ids(documents) = {"d1"}

AddedDocs(r) ==
  IF r.op = "add_documents" THEN r.documents
  ELSE IF r.op = "ingest_text" THEN <<r.result>>
  ELSE r.result

(* C16: the store holds one entry per distinct id added since the last     *)
(* clear and not deleted since, and that entry is the document added last  *)
(* with the id (inside one add call the later element wins): an add call   *)
(* extends the ids by the ids of its batch and leaves the other entries    *)
(* alone, clear empties the store, a delete removes its id only, no other  *)
(* operation changes the store; document_count is the number of distinct   *)
(* ids, list_documents holds exactly the entries and get_document the      *)
(* entry of the id.                                                        *)
C16_LastWriteWins ==
  /\ [](/\ Cardinality(Ids(documents)) = Len(documents)
        /\ ret.op = "document_count" => ret.result = Cardinality(Ids(documents))
        /\ ret.op = "list_documents" =>
             /\ Range(ret.result) = Range(documents)
             /\ Len(ret.result) = Cardinality(Ids(documents))
        /\ ret.op = "get_document" /\ ret.doc_id \in Ids(documents) =>
             /\ ret.result \in Range(documents)
             /\ ret.result.id = ret.doc_id
        /\ ret.op = "clear" => documents = <<>>)
  /\ [][IF ret'.op \in {"add_documents", "ingest_text", "ingest_batch"}
        THEN LET batch == AddedDocs(ret')
                 last(id) == CHOOSE j \in 1..Len(batch) :
                               /\ batch[j].id = id
                               /\ \A k \in 1..Len(batch) : batch[k].id = id => k <= j
             IN /\ Ids(documents') = Ids(documents) \cup Ids(batch)
                /\ \A id \in Ids(batch) : Entry(documents', id) = batch[last(id)]
                /\ \A id \in Ids(documents) \ Ids(batch) :
                     Entry(documents', id) = Entry(documents, id)
        ELSE IF ret'.op = "clear" THEN documents' = <<>>
        ELSE IF ret'.op = "delete_document"
        THEN /\ Ids(documents') = Ids(documents) \ {ret'.doc_id}
             /\ \A id \in Ids(documents') : Entry(documents', id) = Entry(documents, id)
        ELSE documents' = documents]_vars

C16_Witness ==
  /\ ret.op = "add_documents"
  /\ Len(ret.documents) = 2
  /\ ret.documents[1].id = ret.documents[2].id
  /\ ret.documents[1].title # ret.documents[2].title
  /\ get_document(Self, ret.documents[2].id) = ret.documents[2]
  /\ document_count(Self) = 2

(* C17: query on an empty store, or with a query text that is empty or     *)
(* made of whitespace only, returns the empty list, whatever the two       *)
(* fields of the index hold.                                               *)
C17_DegenerateQuery ==
  ret.op = "query" =>
    /\ documents = <<>> => ret.result = <<>>
    /\ (\A i \in 1..Len(ret.query_text) : ret.query_text[i] \in Whitespace) =>
         ret.result = <<>>

C17_Witness ==
  /\ ret.op = "query"
  /\ ret.query_text = <<" ">>
  /\ indexed
  /\ Len(documents) >= 2
  /\ ret.result = <<>>

(* C14: of two documents constructed with the id unset, the ids are equal  *)
(* exactly when the contents are equal, whatever the titles, sources and   *)
(* metadata; a document constructed with a non-empty id keeps it.          *)
C14_ContentAddressedId ==
  ret.op = "Document" =>
    /\ \A i, j \in 1..2 :
         ret.args[i].id = "" /\ ret.args[j].id = "" =>
           (ret.docs[i].id = ret.docs[j].id <=> ret.args[i].content = ret.args[j].content)
    /\ \A i \in 1..2 : ret.args[i].id # "" => ret.docs[i].id = ret.args[i].id

C14_Witness ==
  /\ ret.op = "Document"
  /\ ret.args[1].id = "" /\ ret.args[2].id = ""
  /\ ret.args[1].content = ret.args[2].content
  /\ ret.args[1].title # ret.args[2].title
  /\ ret.args[1].source # ret.args[2].source
  /\ ret.args[1].metadata # ret.args[2].metadata
  /\ ret.docs[1].id = ret.docs[2].id

(* C15: ingest_text(content, title), for every pair and also for the pairs *)
(* validate_document rejects, returns the document of that content and     *)
(* title with the id derived from the content; afterwards get_document of  *)
(* the returned id is the returned document and indexed is true.           *)
C15_IngestUnvalidated ==
  ret.op = "ingest_text" =>
    /\ ret.result = [id |-> md5(ret.content), content |-> ret.content, title |-> ret.title]
    /\ get_document(Self, ret.result.id) = ret.result
    /\ indexed

C15_Witness ==
  /\ ret.op = "ingest_text"
  /\ ret.content = <<" ">>
  /\ ~validate_document(rle_of(ret.content), rle_of(ret.title)).is_valid
  /\ get_document(Self, ret.result.id) = ret.result
  /\ Len(documents) = 3
  /\ indexed

(* C19: synthesize without context_docs takes as sources the result of     *)
(* query with top_k 5, so at most 5 documents and none while indexed is    *)
(* false; with context_docs supplied the sources are the supplied list,    *)
(* and a supplied empty list gives no_results whatever the store holds.    *)
C19_ContextSelection ==
  ret.op = "synthesize" =>
    IF ret.context_docs = None
    THEN /\ ret.result.sources = query(Self, ret.query_text, 5)
         /\ Len(ret.result.sources) <= 5
         /\ ~indexed => ret.result.sources = <<>>
    ELSE /\ ret.result.sources = ret.context_docs.docs
         /\ ret.context_docs.docs = <<>> => ret.result.metadata.status = "no_results"

C19_Witness ==
  /\ ret.op = "synthesize"
  /\ ret.context_docs = None
  /\ Len(documents) = 6
  /\ Cardinality(Matching(ret.query_text)) = 6
  /\ Len(ret.result.sources) = 5

C20_First200(content) ==
  [k \in 1..(IF Len(content) < 200 THEN Len(content) ELSE 200) |-> content[k]]

C20_Line(i, doc) ==
  str_int(i) \o <<".", " ", "F", "r", "o", "m", " ", "'">> \o doc.title
    \o <<"'", ":", " ">> \o C20_First200(doc.content) \o <<".", ".", ".">>

RECURSIVE C20_Lines(_, _)
C20_Lines(i, docs) ==
  IF i > Len(docs) THEN <<>>
  ELSE C20_Line(i, docs[i]) \o <<"\n">> \o C20_Lines(i + 1, docs)

(* C20: for n >= 1 sources the response is the header with the query, an   *)
(* empty line, "Key findings:", the n lines "i. From '<title>': " + the    *)
(* first 200 characters of the content + "..." in the order of the         *)
(* sources, an empty line and the closing sentence, each line ended by a   *)
(* newline but the last.                                                   *)
C20_ResponseTemplate ==
  ret.op = "synthesize" /\ ret.result.sources # <<>> =>
    ret.result.response =
      HeaderPrefix \o ret.query_text \o <<"'", "\n", "\n">>
        \o <<"K", "e", "y", " ", "f", "i", "n", "d", "i", "n", "g", "s", ":", "\n">>
        \o C20_Lines(1, ret.result.sources)
        \o <<"\n">> \o Closing

C20_Witness ==
  /\ ret.op = "synthesize"
  /\ Len(ret.result.sources) = 2
  /\ Len(ret.result.sources[1].content) < 200
  /\ Len(ret.result.sources[2].content) > 200
  /\ ret.result.metadata.status = "success"

Rejected(doc_requests) ==
  {i \in 1..Len(doc_requests) :
     ~validate_document(doc_requests[i].content, doc_requests[i].title).is_valid}

(* C11: a batch-ingest request that is empty or holds an item              *)
(* validate_document rejects is answered 400 and leaves documents and      *)
(* indexed as they were, the error naming the position, counted from 1,    *)
(* of the first rejected item; a batch of accepted items is answered 201;  *)
(* a single-ingest request with a rejected item is answered 400 and        *)
(* leaves documents and indexed as they were.                              *)
C11_NoPartialWrites ==
  [][/\ ret'.op = "POST /ingest/batch" =>
          LET items == ret'.request.documents
              bad == Rejected(items)
          IN IF items = <<>> \/ bad # {}
             THEN /\ ret'.status = 400
                  /\ documents' = documents
                  /\ indexed' = indexed
                  /\ bad # {} =>
                       /\ Len(ret'.detail) = 4
                       /\ ret'.detail[2] = str_int(CHOOSE i \in bad : \A j \in bad : i <= j)
             ELSE ret'.status = 201
     /\ ret'.op = "POST /ingest" =>
          IF Rejected(<<ret'.request>>) # {}
          THEN /\ ret'.status = 400
               /\ documents' = documents
               /\ indexed' = indexed
          ELSE ret'.status = 201]_vars

C11_Witness ==
  /\ ret.op = "POST /ingest/batch"
  /\ Rejected(ret.request.documents) = {2}
  /\ ret.status = 400
  /\ ret.detail[2] = <<"2">>
  /\ documents = <<>>
  /\ ~indexed

(* C12: a batch ingest completes exactly one add_documents call, which     *)
(* sets indexed once; while it is inside that call no other handler takes  *)
(* a step, and when it returns the map is the map it found with the whole  *)
(* batch added.                                                            *)
C12_BatchAtomicity ==
  /\ [](\A h \in Handlers :
          tasks[h].op = "ingest_batch" /\ tasks[h].status = 201 => tasks[h].adds = 1)
  /\ [][\A h \in Handlers :
          /\ tasks[h].pc \in {"set", "flag"} =>
               \A g \in Handlers \ {h} : tasks'[g] = tasks[g]
          /\ tasks[h].pc = "flag" /\ tasks'[h].pc = "done" =>
               /\ documents' = set_all(tasks[h].before, tasks[h].docs)
               /\ indexed']_vars

C12_Witness ==
  /\ tasks["h1"].op = "ingest_batch"
  /\ tasks["h1"].status = 201
  /\ Len(tasks["h1"].docs) = 2
  /\ tasks["h1"].adds = 1
  /\ tasks["h2"].op = "list_documents"
  /\ tasks["h2"].seen = tasks["h1"].docs

C21_GuardRedundant ==
  /\ documents # <<>> => indexed
  /\ ret.op = "query" =>
       ret.result = query([documents |-> documents, indexed |-> TRUE],
                          ret.query_text, ret.top_k)

C21_Witness ==
  /\ ret.op = "query"
  /\ Len(documents) = 2
  /\ indexed
  /\ Len(ret.result) = 2

(* C22: an add leaves every id already stored at its position in the      *)
(* enumeration, whether or not its value is replaced, and puts the new     *)
(* ids behind them; a delete keeps the order of the ids that remain; so    *)
(* list_documents enumerates ids in the order of their first insertion,    *)
(* and documents of equal score stand in a query result in that order.     *)
C22_OverwriteKeepsPosition ==
  /\ [](/\ ret.op = "list_documents" => ret.result = documents
        /\ ret.op = "query" =>
             \A i, j \in 1..Len(ret.result) :
               (/\ TermCount(ret.query_text, ret.result[i])
                     = TermCount(ret.query_text, ret.result[j])
                /\ PosOf(ret.result[i]) < PosOf(ret.result[j]))
                 => i < j)
  /\ [][/\ ret'.op \in {"add_documents", "ingest_text", "ingest_batch"} =>
             /\ Len(documents') >= Len(documents)
             /\ \A i \in 1..Len(documents) : documents'[i].id = documents[i].id
        /\ ret'.op = "delete_document" =>
             \A i, j \in 1..Len(documents') :
               i < j => \E k, l \in 1..Len(documents) :
                          /\ k < l
                          /\ documents[k].id = documents'[i].id
                          /\ documents[l].id = documents'[j].id]_vars

C22_Witness ==
  /\ ret.op = "add_documents"
  /\ Len(documents) = 2
  /\ Len(ret.documents) = 2
  /\ ret.documents[1].id = documents[2].id
  /\ ret.documents[2] = documents[1]
  /\ ret.documents[1] = documents[2]

Occurs(term, text) ==
  \E start \in 1..(Len(text) - Len(term) + 1) :
    \A k \in 1..Len(term) : text[start + k - 1] = term[k]

(* C23: the score query gives a stored document is the number of positions *)
(* of the lowercased, whitespace-split query whose term occurs in the      *)
(* lowercased content: a term standing k times in the query counts k       *)
(* times, several occurrences in the content count once; the score lies    *)
(* between 0 and the number of terms, and a document of score 0 is not     *)
(* returned.                                                               *)
C23_ScoreMultiplicity ==
  ret.op = "query" =>
    LET terms == str_split(str_lower(ret.query_text))
    IN \A i \in 1..Len(documents) :
         LET score == doc_score(terms, documents[i])
             hits == {k \in 1..Len(terms) : Occurs(terms[k], str_lower(documents[i].content))}
         IN /\ score = Cardinality(hits)
            /\ 0 <= score /\ score <= Len(terms)
            /\ score = 0 => documents[i] \notin Range(ret.result)

C23_Witness ==
  /\ ret.op = "query"
  /\ str_split(str_lower(ret.query_text)) = <<<<"a">>, <<"a">>, <<"b">>>>
  /\ Len(documents) = 2
  /\ documents[1].content = <<"b">>
  /\ documents[2].content = <<"a", "a">>
  /\ doc_score(str_split(str_lower(ret.query_text)), documents[2]) = 2
  /\ ret.result = <<documents[2], documents[1]>>

(* C24: an accepted batch request reports ingested_count equal to the      *)
(* number of items sent and returns one document per item in the order of  *)
(* the items; the store grows by the number of ids of the batch it did not *)
(* hold, and the entry of an id is the last item of the batch with it.     *)
C24_BatchCountsItems ==
  [][ret'.op = "POST /ingest/batch" /\ ret'.status = 201 =>
       LET items == ret'.request.documents
           docs == ret'.documents
           last(id) == CHOOSE j \in 1..Len(docs) :
                         /\ docs[j].id = id
                         /\ \A k \in 1..Len(docs) : docs[k].id = id => k <= j
       IN /\ ret'.ingested_count = Len(items)
          /\ Len(docs) = Len(items)
          /\ \A i \in 1..Len(items) :
               /\ rle_of(docs[i].content) = items[i].content
               /\ rle_of(docs[i].title) = items[i].title
          /\ \A i, j \in 1..Len(docs) :
               docs[i].id = docs[j].id <=> docs[i].content = docs[j].content
          /\ Len(documents') - Len(documents) = Cardinality(Ids(docs) \ Ids(documents))
          /\ \A id \in Ids(docs) : Entry(documents', id) = docs[last(id)]]_vars

C24_Witness ==
  /\ ret.op = "POST /ingest/batch"
  /\ ret.status = 201
  /\ ret.ingested_count = 2
  /\ ret.documents[1].id = ret.documents[2].id
  /\ ret.documents[1].title # ret.documents[2].title
  /\ Len(documents) = 2
  /\ \E i \in 1..2 : documents[i] = ret.documents[2]

====
